---- MODULE Spec2Model ----
(***************************************************************************)
(* A model of pkg/typeutils.go of kaleido-io/ethbinding: the EthAPI        *)
(* interface and its implementation ethAPIShim, a pass-through over        *)
(* go-ethereum.                                                            *)
(*                                                                         *)
(* Go values are modelled as follows.                                      *)
(*   string           a sequence of tokens (Seq of TLA+ strings); tokens   *)
(*                    such as "(" "," ")" are single characters, a name    *)
(*                    such as "uint256" is one token.  "" is <<>>.         *)
(*   error            a sequence of tokens; the nil error is NoErr = <<>>. *)
(*   slice            a record [isNil, elems]; a nil slice and an empty    *)
(*                    non-nil slice differ in isNil only.                  *)
(*   pointer results  a record [isNil, val].                               *)
(* Every shim operation is an operator that returns a record               *)
(*   [out, err, calls]                                                     *)
(* where calls is the sequence of wrapped-library (and encoding/json)      *)
(* calls the operation made, in order.                                     *)
(***************************************************************************)
EXTENDS Integers, Sequences, FiniteSets, TLC

\* ------------------------------------------------------------------ bounds

\* longest argument list handed to an operation
MaxLen == 2

\* number of calls whose results the history of SpecHist records
MaxCalls == 3

\* ------------------------------------------------------------------ state

\* type ethAPIShim struct{} has no field, and the package has no variable
\* but EthAPIShim itself: the state is the caller's.
\* last      the call the caller made last and has not yet taken the results
\*           of: the operation, its arguments, what it returned, the library
\*           calls it made, and its arguments as the call left them
\* returned  per operation, the <<arguments, output, error>> of the recorded
\*           calls (a history)
\* ncalls    the number of recorded calls
\* frames    per goroutine, the call of ABIArgumentsMarshalingToABIArguments it
\*           is in the middle of: where it is (pc), the argument, and the
\*           locals i, arguments, err and the result
VARIABLES last, returned, ncalls, frames

vars == <<last, returned, ncalls, frames>>

\* ------------------------------------------------------------------ values

NoErr == <<>>

NilSlice == [isNil |-> TRUE, elems |-> <<>>]

MkSlice(s) == [isNil |-> FALSE, elems |-> s]

NilPtr == [isNil |-> TRUE, val |-> <<>>]

Ptr(v) == [isNil |-> FALSE, val |-> v]

\* the zero value of abi.Type
ZeroType == [T |-> "", stringKind |-> <<>>, internalType |-> <<>>,
             TupleRawNames |-> <<>>, TupleElems |-> <<>>]

\* one record of a call made into the wrapped library (or encoding/json):
\* the function, what identifies the call, and the error it returned
Call(fn, key, err) == [fn |-> fn, key |-> key, err |-> err]

\* sequences over S of length at most n
SeqUpTo(S, n) == UNION {[1..k -> S] : k \in 0..n}

\* ------------------------------------------------------------------ the wrapped library

\* go-ethereum accounts/abi: the elementary type names the model draws from
ElementaryTypes == {"uint256", "address"}

RECURSIVE abi_NewType(_, _, _)
RECURSIVE abi_TupleFields(_, _, _)

\* the tuple branch of abi.NewType: walks the components from index idx,
\* acc is the tuple type built so far
abi_TupleFields(components, idx, acc) ==
    IF idx > Len(components) THEN
        [typ |-> [acc EXCEPT !.stringKind = @ \o <<")">>], err |-> NoErr]
    ELSE
        LET c == components[idx]
            r == abi_NewType(c.Type, c.InternalType, c.Components)
        IN  IF r.err # NoErr THEN [typ |-> ZeroType, err |-> r.err]
            ELSE IF c.Name = <<>> THEN
                [typ |-> ZeroType,
                 err |-> <<"abi: purely anonymous or underscored field is not supported">>]
            ELSE abi_TupleFields(components, idx + 1,
                    [acc EXCEPT
                       !.stringKind = @ \o r.typ.stringKind
                                        \o (IF idx # Len(components) THEN <<",">> ELSE <<>>),
                       !.TupleRawNames = Append(@, c.Name),
                       !.TupleElems = Append(@, r.typ.stringKind)])

\* abi.NewType(t, internalType, components): components is a slice of
\* abi.ArgumentMarshaling; the library ranges over it, so a nil and an empty
\* slice are the same to it
abi_NewType(t, internalType, components) ==
    IF t = <<"tuple">> THEN
        abi_TupleFields(components.elems, 1,
            [T |-> "TupleTy", stringKind |-> <<"(">>, internalType |-> internalType,
             TupleRawNames |-> <<>>, TupleElems |-> <<>>])
    ELSE IF Len(t) = 1 /\ t[1] \in ElementaryTypes THEN
        [typ |-> [T |-> t[1], stringKind |-> t, internalType |-> internalType,
                  TupleRawNames |-> <<>>, TupleElems |-> <<>>],
         err |-> NoErr]
    ELSE
        [typ |-> ZeroType, err |-> <<"unsupported arg type: ">> \o t]

\* abi.Type.String()
abi_Type_String(t) == t.stringKind

\* strings.Join(elems, sep) over a sequence of strings
RECURSIVE strings_Join(_, _)
strings_Join(elems, sep) ==
    IF Len(elems) = 0 THEN <<>>
    ELSE IF Len(elems) = 1 THEN elems[1]
    ELSE elems[1] \o sep \o strings_Join(Tail(elems), sep)

\* fmt.Sprintf("%v(%v)", a, b)
fmt_Sprintf(a, b) == a \o <<"(">> \o b \o <<")">>

\* abi.NewEvent(name, rawName, anonymous, inputs): unnamed inputs are named
\* arg<i> in place, the signature is precomputed from rawName
abi_NewEvent(name, rawName, anonymous, inputs) ==
    LET n == Len(inputs.elems)
        sanitized == [i \in 1..n |->
                        IF inputs.elems[i].Name = <<>>
                        THEN [inputs.elems[i] EXCEPT !.Name = <<"arg", ToString(i - 1)>>]
                        ELSE inputs.elems[i]]
        types == [i \in 1..n |-> abi_Type_String(inputs.elems[i].Type)]
    IN  [Name |-> name, RawName |-> rawName, Anonymous |-> anonymous,
         Inputs |-> [inputs EXCEPT !.elems = sanitized],
         Sig |-> fmt_Sprintf(rawName, strings_Join(types, <<",">>))]

\* abi.NewMethod(name, rawName, funType, mutability, isConst, isPayable, inputs, outputs)
abi_NewMethod(name, rawName, funType, mutability, isConst, isPayable, inputs, outputs) ==
    LET types == [i \in 1..Len(inputs.elems) |-> abi_Type_String(inputs.elems[i].Type)]
    IN  [Name |-> name, RawName |-> rawName, Type |-> funType,
         StateMutability |-> mutability, Constant |-> isConst, Payable |-> isPayable,
         Inputs |-> inputs, Outputs |-> outputs,
         Sig |-> fmt_Sprintf(rawName, strings_Join(types, <<",">>))]

\* A library function the shim hands its arguments to and whose body is not
\* this repository's: its answer is a fixed function of its name and its
\* arguments (args is the sequence of the arguments, one token each).  A
\* function that can fail fails on an argument list that starts with "bad".
LibValue(fn, args) == [out |-> <<fn>> \o args, err |-> NoErr]

LibResult(fn, args) ==
    IF Len(args) > 0 /\ args[1] = "bad"
    THEN [out |-> <<>>, err |-> <<fn, "failed">> \o args]
    ELSE [out |-> <<fn>> \o args, err |-> NoErr]

hexutil_Decode(hex) == LibResult("hexutil.Decode", <<hex>>)

common_HexToAddress(hex) == LibValue("common.HexToAddress", <<hex>>)

common_BytesToAddress(b) == LibValue("common.BytesToAddress", <<b>>)

common_IsHexAddress(s) == LibValue("common.IsHexAddress", <<s>>)

common_HexToHash(hex) == LibValue("common.HexToHash", <<hex>>)

hexutil_EncodeBig(bigint) == LibValue("hexutil.EncodeBig", <<bigint>>)

common_FromHex(hex) == LibValue("common.FromHex", <<hex>>)

abi_JSON(reader) == LibResult("abi.JSON", <<reader>>)

compiler_SolidityVersion(solc) == LibResult("compiler.SolidityVersion", <<solc>>)

compiler_ParseCombinedJSON(combinedJSON, source, languageVersion, compilerVersion, compilerOptions) ==
    LibResult("compiler.ParseCombinedJSON",
              <<combinedJSON, source, languageVersion, compilerVersion, compilerOptions>>)

rpc_Dial(rawurl) == LibResult("rpc.Dial", <<rawurl>>)

types_NewTransaction(nonce, to, amount, gasLimit, gasPrice, data) ==
    LibValue("types.NewTransaction", <<nonce, to, amount, gasLimit, gasPrice, data>>)

types_NewContractCreation(nonce, amount, gasLimit, gasPrice, data) ==
    LibValue("types.NewContractCreation", <<nonce, amount, gasLimit, gasPrice, data>>)

types_NewEIP155Signer(chainID) == LibValue("types.NewEIP155Signer", <<chainID>>)

math_ParseBig256(s) == LibValue("math.ParseBig256", <<s>>)

math_S256(x) == LibValue("math.S256", <<x>>)

\* crypto.GenerateKey() takes no argument: rand is the entropy the library
\* reads, which the caller neither sees nor chooses
crypto_GenerateKey(rand) == LibResult("crypto.GenerateKey", <<rand>>)

crypto_PubkeyToAddress(p) == LibValue("crypto.PubkeyToAddress", <<p>>)

crypto_FromECDSA(priv) == LibValue("crypto.FromECDSA", <<priv>>)

crypto_HexToECDSA(hexkey) == LibResult("crypto.HexToECDSA", <<hexkey>>)

rlp_NewStream(r, inputLimit) == LibValue("rlp.NewStream", <<r, inputLimit>>)

types_SignTx(tx, s, prv) == LibResult("types.SignTx", <<tx, s, prv>>)

\* ------------------------------------------------------------------ encoding/json

\* json.Marshal of a []ABIArgumentMarshaling: a nil slice is null, a slice is
\* the array of its elements' objects.  The keys of an element are name and
\* type, and internalType, components and indexed when they are not empty
\* (not "", not of length 0, not false).  An object is a function from its
\* keys to their values.
RECURSIVE json_Marshal(_)
json_Marshal(v) ==
    IF v.isNil THEN [null |-> TRUE, items |-> <<>>]
    ELSE [null |-> FALSE,
          items |-> [i \in 1..Len(v.elems) |->
             LET a == v.elems[i]
                 keys == {"name", "type"}
                           \cup (IF a.InternalType # <<>> THEN {"internalType"} ELSE {})
                           \cup (IF Len(a.Components.elems) > 0 THEN {"components"} ELSE {})
                           \cup (IF a.Indexed THEN {"indexed"} ELSE {})
             IN  [k \in keys |->
                    CASE k = "name" -> a.Name
                      [] k = "type" -> a.Type
                      [] k = "internalType" -> a.InternalType
                      [] k = "components" -> json_Marshal(a.Components)
                      [] k = "indexed" -> a.Indexed]]]

\* json.Unmarshal into a nil []abi.ArgumentMarshaling: null leaves it nil, an
\* array makes one element per item; a field whose key is absent keeps its
\* zero value
RECURSIVE json_Unmarshal(_)
json_Unmarshal(b) ==
    IF b.null THEN NilSlice
    ELSE MkSlice([i \in 1..Len(b.items) |->
            LET o == b.items[i]
            IN  [Name |-> IF "name" \in DOMAIN o THEN o["name"] ELSE <<>>,
                 Type |-> IF "type" \in DOMAIN o THEN o["type"] ELSE <<>>,
                 InternalType |-> IF "internalType" \in DOMAIN o THEN o["internalType"] ELSE <<>>,
                 Components |-> IF "components" \in DOMAIN o
                                THEN json_Unmarshal(o["components"]) ELSE NilSlice,
                 Indexed |-> IF "indexed" \in DOMAIN o THEN o["indexed"] ELSE FALSE]])

\* json.Marshal of an ABIMarshaling (a []ABIElementMarshaling): the array of
\* the elements' objects, their inputs and outputs encoded as json_Marshal
\* encodes an argument list
json_MarshalABI(v) ==
    [null |-> v.isNil,
     items |-> [i \in 1..Len(v.elems) |->
                  [type |-> v.elems[i].Type, name |-> v.elems[i].Name,
                   inputs |-> json_Marshal(v.elems[i].Inputs),
                   outputs |-> json_Marshal(v.elems[i].Outputs)]]]

\* the first error abi.NewType gives for the arguments args[i..], or NoErr
RECURSIVE abi_ArgumentsErr(_, _)
abi_ArgumentsErr(args, i) ==
    IF i > Len(args) THEN NoErr
    ELSE LET r == abi_NewType(args[i].Type, args[i].InternalType, args[i].Components)
         IN  IF r.err # NoErr THEN r.err ELSE abi_ArgumentsErr(args, i + 1)

\* the first error among the fields items[i..] of an ABI document: an
\* argument whose type abi.NewType rejects (inputs before outputs)
RECURSIVE abi_FieldsErr(_, _)
abi_FieldsErr(items, i) ==
    IF i > Len(items) THEN NoErr
    ELSE LET e1 == abi_ArgumentsErr(json_Unmarshal(items[i].inputs).elems, 1)
             e2 == abi_ArgumentsErr(json_Unmarshal(items[i].outputs).elems, 1)
         IN  IF e1 # NoErr THEN e1
             ELSE IF e2 # NoErr THEN e2
             ELSE abi_FieldsErr(items, i + 1)

\* json.Unmarshal(b, &runtime) for an abi.ABI, that is abi.ABI.UnmarshalJSON:
\* the fields are decoded first, and a field that does not decode leaves the
\* ABI as it was (zero); then a field of an unknown type stops the filling
RECURSIVE abi_Fill(_, _, _)
abi_Fill(items, i, acc) ==
    IF i > Len(items) THEN [out |-> acc, err |-> NoErr]
    ELSE IF items[i].type \notin {<<"function">>, <<"event">>}
    THEN [out |-> acc,
          err |-> <<"abi: could not recognize type ">> \o items[i].type]
    ELSE abi_Fill(items, i + 1, Append(acc, <<items[i].type, items[i].name>>))

abi_ABI_UnmarshalJSON(b) ==
    LET e == abi_FieldsErr(b.items, 1)
    IN  IF e # NoErr THEN [out |-> <<>>, err |-> e]
        ELSE abi_Fill(b.items, 1, <<>>)

\* ------------------------------------------------------------------ ethAPIShim

Ret(out, err, calls) == [out |-> out, err |-> err, calls |-> calls]

\* a one-line delegation: the library's answer, and the one call made
Delegate(fn, r) == Ret(r.out, r.err, <<Call(fn, <<>>, r.err)>>)

HexDecode(hex) == Delegate("hexutil.Decode", hexutil_Decode(hex))

HexToAddress(hex) == Delegate("common.HexToAddress", common_HexToAddress(hex))

BytesToAddress(b) == Delegate("common.BytesToAddress", common_BytesToAddress(b))

IsHexAddress(s) == Delegate("common.IsHexAddress", common_IsHexAddress(s))

\* HexToHash that converts to an address, as its comment says
HexToHash_asAddress(hex) == Delegate("common.HexToAddress", common_HexToAddress(hex))

HexToHash(hex) == Delegate("common.HexToHash", common_HexToHash(hex))

EncodeBig(bigint) == Delegate("hexutil.EncodeBig", hexutil_EncodeBig(bigint))

FromHex(hex) == Delegate("common.FromHex", common_FromHex(hex))

\* ABITypeFor that drops the library's error, as ABITypeKnown does
ABITypeFor_dropsErr(typeName) ==
    LET r == abi_NewType(typeName, <<>>, MkSlice(<<>>))
    IN  Ret(r.typ, NoErr, <<Call("abi.NewType", typeName, r.err)>>)

\* t, err := abi.NewType(typeName, "", []abi.ArgumentMarshaling{}); return t, err
ABITypeFor(typeName) ==
    LET r == abi_NewType(typeName, <<>>, MkSlice(<<>>))
    IN  Ret(r.typ, r.err, <<Call("abi.NewType", typeName, r.err)>>)

\* ABITypeKnown that remembers a type it built and answers with it when the
\* library rejects the name
ABITypeKnown_remembers(typeName) ==
    LET r == abi_NewType(typeName, <<>>, MkSlice(<<>>))
        built == {x \in returned["ABITypeKnown"] : x[2] # ZeroType}
    IN  Ret(IF r.err # NoErr /\ built # {} THEN (CHOOSE x \in built : TRUE)[2] ELSE r.typ,
            NoErr, <<Call("abi.NewType", typeName, r.err)>>)

\* ABITypeKnown that hands the type name on as the internal type too
ABITypeKnown_internalType(typeName) ==
    LET r == abi_NewType(typeName, typeName, MkSlice(<<>>))
    IN  Ret(r.typ, NoErr, <<Call("abi.NewType", typeName, r.err)>>)

\* t, _ = abi.NewType(typeName, "", []abi.ArgumentMarshaling{}); return t
\* (the operation has no error result: err is NoErr whatever the library said)
ABITypeKnown(typeName) ==
    LET r == abi_NewType(typeName, <<>>, MkSlice(<<>>))
    IN  Ret(r.typ, NoErr, <<Call("abi.NewType", typeName, r.err)>>)

\* NewType that asks the library again when it fails
NewType_retries(typeName, internalType) ==
    LET r == abi_NewType(typeName, internalType, MkSlice(<<>>))
        c == Call("abi.NewType", typeName, r.err)
    IN  Ret(r.typ, r.err, IF r.err # NoErr THEN <<c, c>> ELSE <<c>>)

NewType(typeName, internalType) ==
    LET r == abi_NewType(typeName, internalType, MkSlice(<<>>))
    IN  Ret(r.typ, r.err, <<Call("abi.NewType", typeName, r.err)>>)

\* the loop of ABIEventSignature: typeStrings[i] = input.Type.String()
RECURSIVE EventTypeStrings(_, _, _)
EventTypeStrings(inputs, i, typeStrings) ==
    IF i > Len(inputs) THEN typeStrings
    ELSE EventTypeStrings(inputs, i + 1,
            [typeStrings EXCEPT ![i] = abi_Type_String(inputs[i].Type)])

\* ABIEventSignature that prints Name where the code prints RawName
ABIEventSignature_usesName(event) ==
    LET n == Len(event.Inputs.elems)
        typeStrings == EventTypeStrings(event.Inputs.elems, 1, [i \in 1..n |-> <<>>])
    IN  [out |-> fmt_Sprintf(event.Name, strings_Join(typeStrings, <<",">>)),
         err |-> NoErr,
         calls |-> [i \in 1..n |-> Call("abi.Type.String", event.Inputs.elems[i].Type.stringKind, NoErr)],
         event |-> event]

\* ABIEventSignature(event): event is the ABIEvent the pointer refers to.
\* The result also carries the event as the call leaves it.
ABIEventSignature(event) ==
    LET n == Len(event.Inputs.elems)
        typeStrings == EventTypeStrings(event.Inputs.elems, 1, [i \in 1..n |-> <<>>])
    IN  [out |-> fmt_Sprintf(event.RawName, strings_Join(typeStrings, <<",">>)),
         err |-> NoErr,
         calls |-> [i \in 1..n |-> Call("abi.Type.String", event.Inputs.elems[i].Type.stringKind, NoErr)],
         event |-> event]

\* b, _ := json.Marshal(&marshalable); err := json.Unmarshal(b, &runtime);
\* return &runtime, err
ABIMarshalingToABIRuntime(marshalable) ==
    LET b == json_MarshalABI(marshalable)
        r == abi_ABI_UnmarshalJSON(b)
    IN  Ret(Ptr(r.out), r.err,
            <<Call("json.Marshal", <<>>, NoErr), Call("json.Unmarshal", <<>>, r.err)>>)

\* the zero value of abi.Argument
ZeroArgument == [Name |-> <<>>, Type |-> ZeroType, Indexed |-> FALSE]

\* the iteration without arguments[i].Indexed = mArg.Indexed
ArgumentsIter_dropsIndexed(marshalable, i, arguments, calls) ==
    LET mArg == marshalable[i]
        conv == ~mArg.Components.isNil
        components == IF conv THEN json_Unmarshal(json_Marshal(mArg.Components))
                      ELSE NilSlice
        r == abi_NewType(mArg.Type, mArg.InternalType, components)
        calls2 == calls
                    \o (IF conv THEN <<Call("json.Marshal", <<>>, NoErr),
                                      Call("json.Unmarshal", <<>>, NoErr)>>
                        ELSE <<>>)
                    \o <<Call("abi.NewType", mArg.Type, r.err)>>
    IN  IF r.err # NoErr
        THEN [stop |-> TRUE, out |-> NilSlice, err |-> r.err,
              arguments |-> arguments, calls |-> calls2]
        ELSE [stop |-> FALSE, out |-> NilSlice, err |-> NoErr,
              arguments |-> [arguments EXCEPT ![i] = [Name |-> mArg.Name, Type |-> r.typ,
                                                      Indexed |-> FALSE]],
              calls |-> calls2]

\* the iteration with return arguments, err where the code has return nil, err
ArgumentsIter_partial(marshalable, i, arguments, calls) ==
    LET mArg == marshalable[i]
        conv == ~mArg.Components.isNil
        components == IF conv THEN json_Unmarshal(json_Marshal(mArg.Components))
                      ELSE NilSlice
        r == abi_NewType(mArg.Type, mArg.InternalType, components)
        calls2 == calls
                    \o (IF conv THEN <<Call("json.Marshal", <<>>, NoErr),
                                      Call("json.Unmarshal", <<>>, NoErr)>>
                        ELSE <<>>)
                    \o <<Call("abi.NewType", mArg.Type, r.err)>>
    IN  IF r.err # NoErr
        THEN [stop |-> TRUE, out |-> MkSlice(arguments), err |-> r.err,
              arguments |-> arguments, calls |-> calls2]
        ELSE [stop |-> FALSE, out |-> NilSlice, err |-> NoErr,
              arguments |-> [arguments EXCEPT ![i] = [Name |-> mArg.Name, Type |-> r.typ,
                                                      Indexed |-> mArg.Indexed]],
              calls |-> calls2]

\* one iteration of the loop of ABIArgumentsMarshalingToABIArguments, for the
\* element i: arguments and calls are the list and the library calls made so
\* far; stop says that the iteration returned from the function (with out
\* and err)
ArgumentsIter(marshalable, i, arguments, calls) ==
    LET mArg == marshalable[i]
        conv == ~mArg.Components.isNil
        components == IF conv THEN json_Unmarshal(json_Marshal(mArg.Components))
                      ELSE NilSlice
        r == abi_NewType(mArg.Type, mArg.InternalType, components)
        calls2 == calls
                    \o (IF conv THEN <<Call("json.Marshal", <<>>, NoErr),
                                      Call("json.Unmarshal", <<>>, NoErr)>>
                        ELSE <<>>)
                    \o <<Call("abi.NewType", mArg.Type, r.err)>>
    IN  IF r.err # NoErr
        THEN [stop |-> TRUE, out |-> NilSlice, err |-> r.err,
              arguments |-> arguments, calls |-> calls2]
        ELSE [stop |-> FALSE, out |-> NilSlice, err |-> NoErr,
              arguments |-> [arguments EXCEPT ![i] = [Name |-> mArg.Name, Type |-> r.typ,
                                                      Indexed |-> mArg.Indexed]],
              calls |-> calls2]

\* the loop of ABIArgumentsMarshalingToABIArguments from index i on
RECURSIVE ArgumentsLoop(_, _, _, _)
ArgumentsLoop(marshalable, i, arguments, calls) ==
    IF i > Len(marshalable) THEN Ret(MkSlice(arguments), NoErr, calls)
    ELSE LET it == ArgumentsIter(marshalable, i, arguments, calls)
         IN  IF it.stop THEN Ret(it.out, it.err, it.calls)
             ELSE ArgumentsLoop(marshalable, i + 1, it.arguments, it.calls)

\* ABIArgumentsMarshalingToABIArguments(marshalable): marshalable is a slice
\* (make(ABIArguments, len(marshalable)), then the loop).  The result also
\* carries the marshalable as the call leaves it.
ABIArgumentsMarshalingToABIArguments(marshalable) ==
    LET r == ArgumentsLoop(marshalable.elems, 1,
                           [i \in 1..Len(marshalable.elems) |-> ZeroArgument], <<>>)
    IN  [out |-> r.out, err |-> r.err, calls |-> r.calls, marshalable |-> marshalable]

\* ABIElementMarshalingToABIEvent(marshalable): marshalable is the element the
\* pointer refers to
ABIElementMarshalingToABIEvent(marshalable) ==
    LET in == ABIArgumentsMarshalingToABIArguments(marshalable.Inputs)
    IN  IF in.err = NoErr
        THEN Ret(Ptr(abi_NewEvent(marshalable.Name, marshalable.Name,
                                  marshalable.Anonymous, in.out)),
                 in.err, in.calls \o <<Call("abi.NewEvent", marshalable.Name, NoErr)>>)
        ELSE Ret(NilPtr, in.err, in.calls)

\* the method conversion that converts Outputs before Inputs
ABIElementMarshalingToABIMethod_outputsFirst(m) ==
    LET in == ABIArgumentsMarshalingToABIArguments(m.Inputs)
        outs == ABIArgumentsMarshalingToABIArguments(m.Outputs)
    IN  IF outs.err = NoErr
        THEN IF in.err = NoErr
             THEN Ret(Ptr(abi_NewMethod(m.Name, m.Name, "Function", m.StateMutability,
                                        m.Constant, m.Payable, in.out, outs.out)),
                      in.err,
                      outs.calls \o in.calls \o <<Call("abi.NewMethod", m.Name, NoErr)>>)
             ELSE Ret(NilPtr, in.err, outs.calls \o in.calls)
        ELSE Ret(NilPtr, outs.err, outs.calls)

\* ABIElementMarshalingToABIMethod(m): m is the element the pointer refers to
ABIElementMarshalingToABIMethod(m) ==
    LET in == ABIArgumentsMarshalingToABIArguments(m.Inputs)
        outs == ABIArgumentsMarshalingToABIArguments(m.Outputs)
    IN  IF in.err = NoErr
        THEN IF outs.err = NoErr
             THEN Ret(Ptr(abi_NewMethod(m.Name, m.Name, "Function", m.StateMutability,
                                        m.Constant, m.Payable, in.out, outs.out)),
                      outs.err,
                      in.calls \o outs.calls \o <<Call("abi.NewMethod", m.Name, NoErr)>>)
             ELSE Ret(NilPtr, outs.err, in.calls \o outs.calls)
        ELSE Ret(NilPtr, in.err, in.calls)

JSON(reader) == Delegate("abi.JSON", abi_JSON(reader))

SolidityVersion(solc) == Delegate("compiler.SolidityVersion", compiler_SolidityVersion(solc))

ParseCombinedJSON(combinedJSON, source, languageVersion, compilerVersion, compilerOptions) ==
    Delegate("compiler.ParseCombinedJSON",
             compiler_ParseCombinedJSON(combinedJSON, source, languageVersion,
                                        compilerVersion, compilerOptions))

Dial(rawurl) == Delegate("rpc.Dial", rpc_Dial(rawurl))

NewMethod(name, rawName, funType, mutability, isConst, isPayable, inputs, outputs) ==
    Ret(abi_NewMethod(name, rawName, funType, mutability, isConst, isPayable, inputs, outputs),
        NoErr, <<Call("abi.NewMethod", name, NoErr)>>)

NewTransaction(nonce, to, amount, gasLimit, gasPrice, data) ==
    Delegate("types.NewTransaction",
             types_NewTransaction(nonce, to, amount, gasLimit, gasPrice, data))

NewContractCreation(nonce, amount, gasLimit, gasPrice, data) ==
    Delegate("types.NewContractCreation",
             types_NewContractCreation(nonce, amount, gasLimit, gasPrice, data))

NewEIP155Signer(chainID) == Delegate("types.NewEIP155Signer", types_NewEIP155Signer(chainID))

ParseBig256(s) == Delegate("math.ParseBig256", math_ParseBig256(s))

S256(x) == Delegate("math.S256", math_S256(x))

GenerateKey(rand) == Delegate("crypto.GenerateKey", crypto_GenerateKey(rand))

PubkeyToAddress(p) == Delegate("crypto.PubkeyToAddress", crypto_PubkeyToAddress(p))

FromECDSA(priv) == Delegate("crypto.FromECDSA", crypto_FromECDSA(priv))

HexToECDSA(hexkey) == Delegate("crypto.HexToECDSA", crypto_HexToECDSA(hexkey))

NewStream(r, inputLimit) == Delegate("rlp.NewStream", rlp_NewStream(r, inputLimit))

SignTx(tx, s, prv) == Delegate("types.SignTx", types_SignTx(tx, s, prv))

\* ------------------------------------------------------------------ inputs

\* opaque arguments of the delegated library functions
Tok == {"x", "y", "bad"}

TypeNames == {<<"uint256">>, <<"address">>, <<"tuple">>, <<"foo">>, <<"bar">>}

\* a leaf ABIArgumentMarshaling
MArg(name, type, internalType, components, indexed) ==
    [Name |-> name, Type |-> type, InternalType |-> internalType,
     Components |-> components, Indexed |-> indexed]

\* the components a tuple argument is given: named and unnamed, of a known
\* and of an unknown type, and tuples themselves (with a component, and with
\* an empty list of components)
ComponentChoices ==
    {MArg(<<"x">>, <<"uint256">>, <<>>, NilSlice, FALSE),
     MArg(<<>>, <<"address">>, <<>>, NilSlice, FALSE),
     MArg(<<"y">>, <<"foo">>, <<>>, NilSlice, TRUE),
     MArg(<<"z">>, <<"tuple">>, <<"struct Z">>,
          MkSlice(<<MArg(<<"w">>, <<"address">>, <<"address payable">>, NilSlice, TRUE)>>),
          FALSE),
     MArg(<<"e">>, <<"tuple">>, <<>>, MkSlice(<<>>), FALSE)}

ComponentLists ==
    {NilSlice} \cup {MkSlice(c) : c \in SeqUpTo(ComponentChoices, MaxLen)}

\* a tuple argument with the components c
TupleArg(c) == MArg(<<"t">>, <<"tuple">>, <<"struct S">>, c, FALSE)

\* the arguments of the lists of several arguments
ArgChoices ==
    {MArg(n, t, <<>>, NilSlice, x) :
        n \in {<<>>, <<"a">>}, t \in TypeNames \ {<<"tuple">>}, x \in BOOLEAN}
    \cup {TupleArg(c) :
            c \in {NilSlice,
                   MkSlice(<<MArg(<<"x">>, <<"uint256">>, <<>>, NilSlice, FALSE),
                             MArg(<<"z">>, <<"tuple">>, <<"struct Z">>,
                                  MkSlice(<<MArg(<<"w">>, <<"address">>, <<"address payable">>,
                                                 NilSlice, TRUE)>>),
                                  FALSE)>>),
                   MkSlice(<<MArg(<<"x">>, <<"uint256">>, <<>>, NilSlice, FALSE),
                             MArg(<<"y">>, <<"foo">>, <<>>, NilSlice, TRUE)>>)}}

\* the lists ABIArgumentsMarshalingToABIArguments is given: nil, the lists of
\* up to MaxLen arguments, and the lists of one tuple, for every list of
\* components
ArgLists ==
    {NilSlice}
    \cup {MkSlice(a) : a \in SeqUpTo(ArgChoices, MaxLen)}
    \cup {MkSlice(<<TupleArg(c)>>) : c \in ComponentLists}

\* the arguments of the elements handed to the event and method conversions
ElemArgChoices ==
    {MArg(<<"a">>, <<"uint256">>, <<>>, NilSlice, TRUE),
     MArg(<<>>, <<"address">>, <<"address payable">>, NilSlice, FALSE),
     MArg(<<"b">>, <<"foo">>, <<>>, NilSlice, FALSE),
     MArg(<<"c">>, <<"bar">>, <<>>, NilSlice, FALSE),
     MArg(<<"t">>, <<"tuple">>, <<>>,
          MkSlice(<<MArg(<<"x">>, <<"uint256">>, <<>>, NilSlice, FALSE),
                    MArg(<<"y">>, <<"address">>, <<>>, NilSlice, FALSE)>>), FALSE)}

ElemArgLists == {NilSlice} \cup {MkSlice(a) : a \in SeqUpTo(ElemArgChoices, MaxLen)}

\* an ABIElementMarshaling
Elements ==
    [Type : {<<"function">>}, Name : {<<"f">>, <<"g">>}, Payable : {FALSE},
     Constant : BOOLEAN, Anonymous : BOOLEAN, StateMutability : {<<"view">>},
     Inputs : ElemArgLists, Outputs : {NilSlice}]

MethodElements ==
    [Type : {<<"function">>}, Name : {<<"f">>, <<"g">>}, Payable : {TRUE},
     Constant : {FALSE}, Anonymous : {FALSE}, StateMutability : {<<"payable">>},
     Inputs : ElemArgLists, Outputs : ElemArgLists]

\* the elements of the ABI documents handed to ABIMarshalingToABIRuntime
DocElements ==
    [Type : {<<"function">>, <<"event">>, <<"bogus">>}, Name : {<<"f">>},
     Payable : {FALSE}, Constant : {FALSE}, Anonymous : {FALSE},
     StateMutability : {<<>>},
     Inputs : {NilSlice, MkSlice(<<>>),
               MkSlice(<<MArg(<<"a">>, <<"uint256">>, <<>>, NilSlice, FALSE)>>),
               MkSlice(<<MArg(<<"b">>, <<"foo">>, <<>>, NilSlice, FALSE)>>)},
     Outputs : {NilSlice, MkSlice(<<MArg(<<"c">>, <<"bar">>, <<>>, NilSlice, FALSE)>>)}]

Documents == {NilSlice} \cup {MkSlice(d) : d \in SeqUpTo(DocElements, MaxLen)}

\* the abi.Type values of the arguments of the events and methods a caller holds
RuntimeTypes ==
    {abi_NewType(<<"uint256">>, <<>>, NilSlice).typ,
     abi_NewType(<<"address">>, <<>>, NilSlice).typ,
     abi_NewType(<<"tuple">>, <<>>,
                 MkSlice(<<MArg(<<"x">>, <<"uint256">>, <<>>, NilSlice, FALSE),
                           MArg(<<"y">>, <<"address">>, <<>>, NilSlice, FALSE)>>)).typ}

RuntimeArguments == [Name : {<<>>, <<"a">>}, Type : RuntimeTypes, Indexed : BOOLEAN]

RuntimeArgLists == {NilSlice} \cup {MkSlice(a) : a \in SeqUpTo(RuntimeArguments, MaxLen)}

\* the ABIEvent values a caller holds: built by hand, so RawName, Name and
\* Sig are unrelated
Events ==
    [Name : {<<"E">>, <<"F">>}, RawName : {<<"E">>, <<"E0">>}, Anonymous : {FALSE},
     Inputs : RuntimeArgLists, Sig : {<<>>}]

\* the argument lists handed to NewMethod
MethodArgLists ==
    {NilSlice, MkSlice(<<>>),
     MkSlice(<<[Name |-> <<"a">>, Type |-> abi_NewType(<<"uint256">>, <<>>, NilSlice).typ,
                Indexed |-> FALSE]>>)}

\* ------------------------------------------------------------------ calls

OpNames ==
    {"HexDecode", "HexToAddress", "BytesToAddress", "IsHexAddress", "HexToHash",
     "EncodeBig", "FromHex", "ABITypeFor", "ABITypeKnown", "NewType",
     "ABIEventSignature", "ABIMarshalingToABIRuntime",
     "ABIArgumentsMarshalingToABIArguments", "ABIElementMarshalingToABIEvent",
     "ABIElementMarshalingToABIMethod", "JSON", "SolidityVersion",
     "ParseCombinedJSON", "Dial", "NewMethod", "NewTransaction",
     "NewContractCreation", "NewEIP155Signer", "ParseBig256", "S256",
     "GenerateKey", "PubkeyToAddress", "FromECDSA", "HexToECDSA", "NewStream",
     "SignTx"}

\* the goroutines that call ABIArgumentsMarshalingToABIArguments at the same
\* time, on the one EthAPIShim
Goroutines == {"g1", "g2"}

\* a goroutine that is not in a call
NoFrame == [pc |-> "idle", marshalable |-> NilSlice, i |-> 0, arguments |-> <<>>,
            calls |-> <<>>, out |-> NilSlice, err |-> NoErr]

\* no call is in progress: the caller is free to make one
Idle == [op |-> "none", in |-> <<>>, out |-> <<>>, err |-> NoErr,
         calls |-> <<>>, post |-> <<>>]

Init ==
    /\ last = Idle
    /\ returned = [o \in OpNames |-> {}]
    /\ ncalls = 0
    /\ frames = [g \in Goroutines |-> NoFrame]

\* the caller makes a call only when the last one has returned
Free == last = Idle

\* the caller, free, calls op with the arguments in; the call returns r and
\* leaves the arguments as post (a call is synchronous: it is one step)
Invoke(op, in, r, post) ==
    /\ last' = [op |-> op, in |-> in, out |-> r.out, err |-> r.err,
                calls |-> r.calls, post |-> post]
    /\ UNCHANGED <<returned, ncalls, frames>>

CallHexDecode == Free /\ \E hex \in Tok : Invoke("HexDecode", <<hex>>, HexDecode(hex), <<hex>>)

CallHexToAddress == Free /\ \E hex \in Tok : Invoke("HexToAddress", <<hex>>, HexToAddress(hex), <<hex>>)

CallBytesToAddress == Free /\ \E b \in Tok : Invoke("BytesToAddress", <<b>>, BytesToAddress(b), <<b>>)

CallIsHexAddress == Free /\ \E x \in Tok : Invoke("IsHexAddress", <<x>>, IsHexAddress(x), <<x>>)

CallHexToHash == Free /\ \E hex \in Tok : Invoke("HexToHash", <<hex>>, HexToHash(hex), <<hex>>)

CallEncodeBig == Free /\ \E b \in Tok : Invoke("EncodeBig", <<b>>, EncodeBig(b), <<b>>)

CallFromHex == Free /\ \E hex \in Tok : Invoke("FromHex", <<hex>>, FromHex(hex), <<hex>>)

CallABITypeFor == Free /\ \E t \in TypeNames : Invoke("ABITypeFor", <<t>>, ABITypeFor(t), <<t>>)

CallABITypeKnown == Free /\ \E t \in TypeNames : Invoke("ABITypeKnown", <<t>>, ABITypeKnown(t), <<t>>)

CallNewType ==
    Free /\ \E t \in TypeNames, it \in {<<>>, <<"struct S">>} :
        Invoke("NewType", <<t, it>>, NewType(t, it), <<t, it>>)

CallABIEventSignature ==
    Free /\ \E event \in Events :
        LET r == ABIEventSignature(event)
        IN  Invoke("ABIEventSignature", <<event>>, r, <<r.event>>)

CallABIMarshalingToABIRuntime ==
    Free /\ \E m \in Documents :
        Invoke("ABIMarshalingToABIRuntime", <<m>>, ABIMarshalingToABIRuntime(m), <<m>>)

CallABIArgumentsMarshalingToABIArguments ==
    Free /\ \E m \in ArgLists :
        LET r == ABIArgumentsMarshalingToABIArguments(m)
        IN  Invoke("ABIArgumentsMarshalingToABIArguments", <<m>>, r, <<r.marshalable>>)

CallABIElementMarshalingToABIEvent ==
    Free /\ \E m \in Elements :
        Invoke("ABIElementMarshalingToABIEvent", <<m>>,
               ABIElementMarshalingToABIEvent(m), <<m>>)

CallABIElementMarshalingToABIMethod ==
    Free /\ \E m \in MethodElements :
        Invoke("ABIElementMarshalingToABIMethod", <<m>>,
               ABIElementMarshalingToABIMethod(m), <<m>>)

CallJSON == Free /\ \E r \in Tok : Invoke("JSON", <<r>>, JSON(r), <<r>>)

CallSolidityVersion ==
    Free /\ \E solc \in Tok : Invoke("SolidityVersion", <<solc>>, SolidityVersion(solc), <<solc>>)

CallParseCombinedJSON ==
    Free /\ \E a \in [1..5 -> Tok] :
        Invoke("ParseCombinedJSON", a, ParseCombinedJSON(a[1], a[2], a[3], a[4], a[5]), a)

CallDial == Free /\ \E rawurl \in Tok : Invoke("Dial", <<rawurl>>, Dial(rawurl), <<rawurl>>)

CallNewMethod ==
    Free /\ \E name \in {<<"f">>, <<"g">>}, rawName \in {<<"f">>, <<"f0">>},
       funType \in {"Function", "Constructor"}, isConst \in BOOLEAN,
       inputs \in MethodArgLists, outputs \in MethodArgLists :
        LET a == <<name, rawName, funType, <<"view">>, isConst, FALSE, inputs, outputs>>
        IN  Invoke("NewMethod", a,
                   NewMethod(name, rawName, funType, <<"view">>, isConst, FALSE,
                             inputs, outputs), a)

CallNewTransaction ==
    Free /\ \E a \in [1..6 -> Tok] :
        Invoke("NewTransaction", a, NewTransaction(a[1], a[2], a[3], a[4], a[5], a[6]), a)

CallNewContractCreation ==
    Free /\ \E a \in [1..5 -> Tok] :
        Invoke("NewContractCreation", a,
               NewContractCreation(a[1], a[2], a[3], a[4], a[5]), a)

CallNewEIP155Signer ==
    Free /\ \E c \in Tok : Invoke("NewEIP155Signer", <<c>>, NewEIP155Signer(c), <<c>>)

CallParseBig256 == Free /\ \E x \in Tok : Invoke("ParseBig256", <<x>>, ParseBig256(x), <<x>>)

CallS256 == Free /\ \E x \in Tok : Invoke("S256", <<x>>, S256(x), <<x>>)

\* GenerateKey() has no argument; the entropy the library draws stands in
\* the place of the arguments
CallGenerateKey == Free /\ \E rand \in Tok : Invoke("GenerateKey", <<rand>>, GenerateKey(rand), <<rand>>)

CallPubkeyToAddress ==
    Free /\ \E p \in Tok : Invoke("PubkeyToAddress", <<p>>, PubkeyToAddress(p), <<p>>)

CallFromECDSA == Free /\ \E k \in Tok : Invoke("FromECDSA", <<k>>, FromECDSA(k), <<k>>)

CallHexToECDSA == Free /\ \E h \in Tok : Invoke("HexToECDSA", <<h>>, HexToECDSA(h), <<h>>)

CallNewStream ==
    Free /\ \E a \in [1..2 -> Tok] : Invoke("NewStream", a, NewStream(a[1], a[2]), a)

CallSignTx == Free /\ \E a \in [1..3 -> Tok] : Invoke("SignTx", a, SignTx(a[1], a[2], a[3]), a)

\* the caller takes the results and is free to call again
Return ==
    /\ last # Idle
    /\ last' = Idle
    /\ UNCHANGED <<returned, ncalls, frames>>

Next ==
    \/ Return
    \/ CallHexDecode
    \/ CallHexToAddress
    \/ CallBytesToAddress
    \/ CallIsHexAddress
    \/ CallHexToHash
    \/ CallEncodeBig
    \/ CallFromHex
    \/ CallABITypeFor
    \/ CallABITypeKnown
    \/ CallNewType
    \/ CallABIEventSignature
    \/ CallABIMarshalingToABIRuntime
    \/ CallABIArgumentsMarshalingToABIArguments
    \/ CallABIElementMarshalingToABIEvent
    \/ CallABIElementMarshalingToABIMethod
    \/ CallJSON
    \/ CallSolidityVersion
    \/ CallParseCombinedJSON
    \/ CallDial
    \/ CallNewMethod
    \/ CallNewTransaction
    \/ CallNewContractCreation
    \/ CallNewEIP155Signer
    \/ CallParseBig256
    \/ CallS256
    \/ CallGenerateKey
    \/ CallPubkeyToAddress
    \/ CallFromECDSA
    \/ CallHexToECDSA
    \/ CallNewStream
    \/ CallSignTx

Spec == Init /\ [][Next]_vars

\* ------------------------------------------------------------------ recorded calls

\* the arguments of the recorded calls
HistTypeNames == {<<"uint256">>, <<"foo">>}

HistArg == [Name |-> <<"a">>, Type |-> abi_NewType(<<"address">>, <<>>, NilSlice).typ,
            Indexed |-> TRUE]

HistEvents ==
    [Name : {<<"E">>}, RawName : {<<"E0">>}, Anonymous : {FALSE},
     Inputs : {NilSlice, MkSlice(<<HistArg>>)}, Sig : {<<>>}]

HistArgLists ==
    {NilSlice,
     MkSlice(<<MArg(<<"a">>, <<"uint256">>, <<>>, NilSlice, TRUE)>>),
     MkSlice(<<MArg(<<"t">>, <<"tuple">>, <<"struct S">>,
                    MkSlice(<<MArg(<<"x">>, <<"uint256">>, <<>>, NilSlice, FALSE)>>), FALSE),
               MArg(<<"b">>, <<"foo">>, <<>>, NilSlice, FALSE)>>)}

HistElements ==
    [Type : {<<"function">>}, Name : {<<"f">>}, Payable : {TRUE},
     Constant : {FALSE}, Anonymous : {FALSE}, StateMutability : {<<"payable">>},
     Inputs : {MkSlice(<<MArg(<<"a">>, <<"uint256">>, <<>>, NilSlice, TRUE)>>)},
     Outputs : {NilSlice, MkSlice(<<MArg(<<"c">>, <<"bar">>, <<>>, NilSlice, FALSE)>>)}]

\* as Invoke, and the call is recorded
Record(op, in, r, post) ==
    /\ ncalls < MaxCalls
    /\ last' = [op |-> op, in |-> in, out |-> r.out, err |-> r.err,
                calls |-> r.calls, post |-> post]
    /\ returned' = [returned EXCEPT ![op] = @ \cup {<<in, r.out, r.err>>}]
    /\ ncalls' = ncalls + 1
    /\ UNCHANGED frames

HistABITypeFor ==
    Free /\ \E t \in HistTypeNames : Record("ABITypeFor", <<t>>, ABITypeFor(t), <<t>>)

HistABITypeKnown ==
    Free /\ \E t \in HistTypeNames : Record("ABITypeKnown", <<t>>, ABITypeKnown(t), <<t>>)

HistABIEventSignature ==
    Free /\ \E event \in HistEvents :
        LET r == ABIEventSignature(event)
        IN  Record("ABIEventSignature", <<event>>, r, <<r.event>>)

HistABIArgumentsMarshalingToABIArguments ==
    Free /\ \E m \in HistArgLists :
        LET r == ABIArgumentsMarshalingToABIArguments(m)
        IN  Record("ABIArgumentsMarshalingToABIArguments", <<m>>, r, <<r.marshalable>>)

HistABIElementMarshalingToABIEvent ==
    Free /\ \E m \in HistElements :
        Record("ABIElementMarshalingToABIEvent", <<m>>,
               ABIElementMarshalingToABIEvent(m), <<m>>)

HistABIElementMarshalingToABIMethod ==
    Free /\ \E m \in HistElements :
        Record("ABIElementMarshalingToABIMethod", <<m>>,
               ABIElementMarshalingToABIMethod(m), <<m>>)

HistHexDecode ==
    Free /\ \E hex \in {"x", "bad"} : Record("HexDecode", <<hex>>, HexDecode(hex), <<hex>>)

HistGenerateKey ==
    Free /\ \E rand \in {"x", "y"} :
        Record("GenerateKey", <<rand>>, GenerateKey(rand), <<rand>>)

\* goroutine g calls ABIArgumentsMarshalingToABIArguments(m):
\* arguments := make(ABIArguments, len(marshalable))
GoCall(g) ==
    /\ frames[g].pc = "idle"
    /\ ncalls < MaxCalls
    /\ \E m \in HistArgLists :
          frames' = [frames EXCEPT ![g] =
                        [pc |-> "loop", marshalable |-> m, i |-> 1,
                         arguments |-> [j \in 1..Len(m.elems) |-> ZeroArgument],
                         calls |-> <<>>, out |-> NilSlice, err |-> NoErr]]
    /\ ncalls' = ncalls + 1
    /\ UNCHANGED <<last, returned>>

\* goroutine g runs one iteration of the loop, or leaves it: return arguments, nil
GoIterate(g) ==
    /\ frames[g].pc = "loop"
    /\ LET f == frames[g]
       IN  IF f.i > Len(f.marshalable.elems)
           THEN frames' = [frames EXCEPT ![g] =
                              [f EXCEPT !.pc = "done", !.out = MkSlice(f.arguments)]]
           ELSE LET it == ArgumentsIter(f.marshalable.elems, f.i, f.arguments, f.calls)
                IN  frames' = [frames EXCEPT ![g] =
                                  IF it.stop
                                  THEN [f EXCEPT !.pc = "done", !.out = it.out,
                                                 !.err = it.err, !.calls = it.calls]
                                  ELSE [f EXCEPT !.i = f.i + 1,
                                                 !.arguments = it.arguments,
                                                 !.calls = it.calls]]
    /\ UNCHANGED <<last, returned, ncalls>>

\* the call of goroutine g returns, and is recorded
GoReturn(g) ==
    /\ frames[g].pc = "done"
    /\ returned' = [returned EXCEPT !["ABIArgumentsMarshalingToABIArguments"] =
                       @ \cup {<<(<<frames[g].marshalable>>), frames[g].out, frames[g].err>>}]
    /\ frames' = [frames EXCEPT ![g] = NoFrame]
    /\ UNCHANGED <<last, ncalls>>

NextHist ==
    \/ Return
    \/ \E g \in Goroutines : GoCall(g)
    \/ \E g \in Goroutines : GoIterate(g)
    \/ \E g \in Goroutines : GoReturn(g)
    \/ HistABITypeFor
    \/ HistABITypeKnown
    \/ HistABIEventSignature
    \/ HistABIArgumentsMarshalingToABIArguments
    \/ HistABIElementMarshalingToABIEvent
    \/ HistABIElementMarshalingToABIMethod
    \/ HistHexDecode
    \/ HistGenerateKey

\* at most MaxCalls calls on the one EthAPIShim value, each recorded in
\* returned: a caller that makes one call after another, and two goroutines
\* whose calls of ABIArgumentsMarshalingToABIArguments run an iteration at a
\* time, interleaved with each other and with the caller's calls
SpecHist == Init /\ [][NextHist]_vars

\* ------------------------------------------------------------------ properties

\* the answer of abi.NewType for one ABIArgumentMarshaling, its Components
\* handed over as they are (a nil list is no components)
TypeOf(mArg) == abi_NewType(mArg.Type, mArg.InternalType, mArg.Components)

\* the index of the first element whose type the library rejects, 0 if none
FirstFail(elems) ==
    IF \E i \in 1..Len(elems) : TypeOf(elems[i]).err # NoErr
    THEN CHOOSE i \in 1..Len(elems) :
            /\ TypeOf(elems[i]).err # NoErr
            /\ \A j \in 1..(i - 1) : TypeOf(elems[j]).err = NoErr
    ELSE 0

\* the type names of the abi.NewType calls of a call log, in order
NewTypeKeys(calls) ==
    LET sel == SelectSeq(calls, LAMBDA c : c.fn = "abi.NewType")
    IN  [i \in 1..Len(sel) |-> sel[i].key]

\* what the arguments conversion has to give if it is nothing but the
\* library's abi.NewType applied to each element in turn
WrappedArguments(m) ==
    LET k == FirstFail(m.elems)
    IN  IF k > 0 THEN [out |-> NilSlice, err |-> TypeOf(m.elems[k]).err]
        ELSE [out |-> MkSlice([i \in 1..Len(m.elems) |->
                                 [Name |-> m.elems[i].Name,
                                  Type |-> TypeOf(m.elems[i]).typ,
                                  Indexed |-> m.elems[i].Indexed]]),
              err |-> NoErr]

\* the output and the error of the wrapped library's function (or functions)
\* that corresponds to the operation op, for the arguments in
Wrapped(op, in) ==
    CASE op = "HexDecode" -> hexutil_Decode(in[1])
      [] op = "HexToAddress" -> common_HexToAddress(in[1])
      [] op = "BytesToAddress" -> common_BytesToAddress(in[1])
      [] op = "IsHexAddress" -> common_IsHexAddress(in[1])
      [] op = "HexToHash" -> common_HexToHash(in[1])
      [] op = "EncodeBig" -> hexutil_EncodeBig(in[1])
      [] op = "FromHex" -> common_FromHex(in[1])
      [] op \in {"ABITypeFor", "ABITypeKnown"} ->
            LET r == abi_NewType(in[1], <<>>, MkSlice(<<>>))
            IN  [out |-> r.typ, err |-> r.err]
      [] op = "NewType" ->
            LET r == abi_NewType(in[1], in[2], MkSlice(<<>>))
            IN  [out |-> r.typ, err |-> r.err]
      [] op = "ABIEventSignature" ->
            [out |-> abi_NewEvent(in[1].Name, in[1].RawName, in[1].Anonymous,
                                  in[1].Inputs).Sig,
             err |-> NoErr]
      [] op = "ABIMarshalingToABIRuntime" ->
            LET r == abi_ABI_UnmarshalJSON(json_MarshalABI(in[1]))
            IN  [out |-> Ptr(r.out), err |-> r.err]
      [] op = "ABIArgumentsMarshalingToABIArguments" -> WrappedArguments(in[1])
      [] op = "ABIElementMarshalingToABIEvent" ->
            LET a == WrappedArguments(in[1].Inputs)
            IN  IF a.err # NoErr THEN [out |-> NilPtr, err |-> a.err]
                ELSE [out |-> Ptr(abi_NewEvent(in[1].Name, in[1].Name,
                                               in[1].Anonymous, a.out)),
                      err |-> NoErr]
      [] op = "ABIElementMarshalingToABIMethod" ->
            LET a == WrappedArguments(in[1].Inputs)
                b == WrappedArguments(in[1].Outputs)
            IN  IF a.err # NoErr THEN [out |-> NilPtr, err |-> a.err]
                ELSE IF b.err # NoErr THEN [out |-> NilPtr, err |-> b.err]
                ELSE [out |-> Ptr(abi_NewMethod(in[1].Name, in[1].Name, "Function",
                                                in[1].StateMutability, in[1].Constant,
                                                in[1].Payable, a.out, b.out)),
                      err |-> NoErr]
      [] op = "JSON" -> abi_JSON(in[1])
      [] op = "SolidityVersion" -> compiler_SolidityVersion(in[1])
      [] op = "ParseCombinedJSON" ->
            compiler_ParseCombinedJSON(in[1], in[2], in[3], in[4], in[5])
      [] op = "Dial" -> rpc_Dial(in[1])
      [] op = "NewMethod" ->
            [out |-> abi_NewMethod(in[1], in[2], in[3], in[4], in[5], in[6], in[7], in[8]),
             err |-> NoErr]
      [] op = "NewTransaction" ->
            types_NewTransaction(in[1], in[2], in[3], in[4], in[5], in[6])
      [] op = "NewContractCreation" ->
            types_NewContractCreation(in[1], in[2], in[3], in[4], in[5])
      [] op = "NewEIP155Signer" -> types_NewEIP155Signer(in[1])
      [] op = "ParseBig256" -> math_ParseBig256(in[1])
      [] op = "S256" -> math_S256(in[1])
      [] op = "GenerateKey" -> crypto_GenerateKey(in[1])
      [] op = "PubkeyToAddress" -> crypto_PubkeyToAddress(in[1])
      [] op = "FromECDSA" -> crypto_FromECDSA(in[1])
      [] op = "HexToECDSA" -> crypto_HexToECDSA(in[1])
      [] op = "NewStream" -> rlp_NewStream(in[1], in[2])
      [] op = "SignTx" -> types_SignTx(in[1], in[2], in[3])

\* C1 as stated: whatever the operation, its output and its error are the
\* output and the error of the wrapped library for the same arguments.
C1_PassThroughAll ==
    last.op # "none" =>
        /\ last.out = Wrapped(last.op, last.in).out
        /\ last.err = Wrapped(last.op, last.in).err

\* C1 as amended: the output of every operation is the wrapped library's for
\* the same arguments, and so is the error of every operation but
\* ABITypeKnown, which reports none whatever the library returned.
C1_PassThrough ==
    last.op # "none" =>
        /\ last.out = Wrapped(last.op, last.in).out
        /\ last.err = IF last.op = "ABITypeKnown" THEN NoErr
                      ELSE Wrapped(last.op, last.in).err

\* a delegation the library fails, and the failure handed to the caller
C1_Witness ==
    /\ last.op = "HexDecode"
    /\ last.in = <<"bad">>
    /\ last.out = <<>>
    /\ last.err = <<"hexutil.Decode", "failed", "bad">>

\* C2 as stated: an error that a call made during an operation returns is
\* the error the operation returns.
C2_EveryErrorReturned ==
    \A i \in 1..Len(last.calls) :
        last.calls[i].err # NoErr => last.err = last.calls[i].err

\* C2 as amended: in every operation but ABITypeKnown, a call that returns an
\* error is the last call the operation makes and its error is the error the
\* operation returns, and an operation returns no error of its own making;
\* ABITypeKnown drops the error of abi.NewType.
C2_ErrorsReturned ==
    /\ last.op # "ABITypeKnown" =>
          /\ \A i \in 1..Len(last.calls) :
                last.calls[i].err # NoErr =>
                    i = Len(last.calls) /\ last.err = last.calls[i].err
          /\ last.err # NoErr =>
                Len(last.calls) > 0 /\ last.err = last.calls[Len(last.calls)].err
    /\ last.op = "ABITypeKnown" => last.err = NoErr

\* a method conversion whose Inputs convert and whose Outputs the library
\* rejects: the rejection ends the operation and is what it returns
C2_Witness ==
    /\ last.op = "ABIElementMarshalingToABIMethod"
    /\ Len(last.calls) >= 2
    /\ last.calls[1].err = NoErr
    /\ last.calls[Len(last.calls)].fn = "abi.NewType"
    /\ last.calls[Len(last.calls)].err = <<"unsupported arg type: ", "bar">>
    /\ last.err = <<"unsupported arg type: ", "bar">>

\* C3: the shim keeps nothing between calls: among the recorded calls of an
\* operation, two with the same arguments returned the same output and the
\* same error, whatever was called before or in between; a call leaves its
\* arguments as they were; and a call that ran interleaved with others
\* returns what it returns when it runs alone.
C3_Stateless ==
    /\ \A op \in OpNames :
          \A x, y \in returned[op] : x[1] = y[1] => x = y
    /\ last.op # "none" => last.post = last.in
    /\ \A g \in Goroutines :
          frames[g].pc = "done" =>
              LET r == ABIArgumentsMarshalingToABIArguments(frames[g].marshalable)
              IN  /\ frames[g].out = r.out
                  /\ frames[g].err = r.err
                  /\ frames[g].calls = r.calls

\* goroutine g2 has come to the end of a call that began while the call of
\* goroutine g1, of the same two arguments, was in its loop, where it still
\* is; the caller made the same call meanwhile, and got what g2 has
C3_Witness ==
    /\ frames["g1"].pc = "loop"
    /\ frames["g1"].i = 2
    /\ frames["g2"].pc = "done"
    /\ frames["g2"].marshalable = frames["g1"].marshalable
    /\ Len(frames["g2"].marshalable.elems) = 2
    /\ frames["g2"].err # NoErr
    /\ <<(<<frames["g2"].marshalable>>), frames["g2"].out, frames["g2"].err>>
          \in returned["ABIArgumentsMarshalingToABIArguments"]

\* the operations that are more than one delegating call
Converters ==
    {"ABIEventSignature", "ABIMarshalingToABIRuntime",
     "ABIArgumentsMarshalingToABIArguments", "ABIElementMarshalingToABIEvent",
     "ABIElementMarshalingToABIMethod"}

\* the calls the conversion of the arguments elems has to make: abi.NewType
\* for the elements up to the first rejected one, and before it json.Marshal
\* and json.Unmarshal for an element whose Components is not nil
ConversionCalls(elems) ==
    LET k == FirstFail(elems)
        p == IF k > 0 THEN k ELSE Len(elems)
    IN  p + 2 * Cardinality({i \in 1..p : ~elems[i].Components.isNil})

\* C4 as stated: every call of an operation makes exactly one call into the
\* wrapped library.
C4_OneCallEach == last.op # "none" => Len(last.calls) = 1

\* C4 as amended: an operation other than the five conversions makes exactly
\* one library call.  ABIEventSignature asks each input's type for its
\* string; ABIMarshalingToABIRuntime encodes and decodes once; the arguments
\* conversion goes through the elements up to the first the library rejects;
\* the event and method conversions convert the argument lists (Outputs only
\* when Inputs converted) and call abi.NewEvent or abi.NewMethod once when
\* nothing failed.
C4_CallCounts ==
    /\ (last.op # "none" /\ last.op \notin Converters) => Len(last.calls) = 1
    /\ last.op = "ABIEventSignature" =>
          /\ Len(last.calls) = Len(last.in[1].Inputs.elems)
          /\ \A i \in 1..Len(last.calls) : last.calls[i].fn = "abi.Type.String"
    /\ last.op = "ABIMarshalingToABIRuntime" =>
          [i \in 1..Len(last.calls) |-> last.calls[i].fn] = <<"json.Marshal", "json.Unmarshal">>
    /\ last.op = "ABIArgumentsMarshalingToABIArguments" =>
          Len(last.calls) = ConversionCalls(last.in[1].elems)
    /\ last.op = "ABIElementMarshalingToABIEvent" =>
          Len(last.calls) = ConversionCalls(last.in[1].Inputs.elems)
                              + (IF last.err = NoErr THEN 1 ELSE 0)
    /\ last.op = "ABIElementMarshalingToABIMethod" =>
          Len(last.calls) =
              ConversionCalls(last.in[1].Inputs.elems)
              + (IF FirstFail(last.in[1].Inputs.elems) = 0
                 THEN ConversionCalls(last.in[1].Outputs.elems) ELSE 0)
              + (IF last.err = NoErr THEN 1 ELSE 0)

\* a method conversion that makes six calls: a tuple and an argument in,
\* one argument out, and abi.NewMethod
C4_Witness ==
    /\ last.op = "ABIElementMarshalingToABIMethod"
    /\ last.err = NoErr
    /\ [i \in 1..Len(last.calls) |-> last.calls[i].fn]
          = <<"json.Marshal", "json.Unmarshal", "abi.NewType", "abi.NewType",
              "abi.NewType", "abi.NewMethod">>

\* the total length of the Type strings of the first k inputs of an event
RECURSIVE SumLen(_, _)
SumLen(ev, k) ==
    IF k = 0 THEN 0 ELSE Len(ev.Inputs.elems[k].Type.stringKind) + SumLen(ev, k - 1)

\* where the Type string of input i starts in the signature (0-based)
SigOffset(ev, i) == Len(ev.RawName) + 1 + SumLen(ev, i - 1) + (i - 1)

\* the event with another Name, its inputs unnamed and not indexed
Blind(ev) ==
    [ev EXCEPT !.Name = <<"other">>,
               !.Inputs.elems = [i \in 1..Len(ev.Inputs.elems) |->
                                   [ev.Inputs.elems[i] EXCEPT !.Name = <<>>,
                                                              !.Indexed = FALSE]]]

\* C5: ABIEventSignature returns RawName, "(", the Type strings of the inputs
\* in order with one "," between two neighbours and nothing else, and ")": the
\* signature is as long as RawName, the Type strings, the two brackets and
\* n-1 separators (none for n = 0, "RawName()").  Names, Indexed flags and
\* Name do not matter, and the event is left as it was.
C5_EventSignature ==
    last.op = "ABIEventSignature" =>
        LET ev == last.in[1]
            n == Len(ev.Inputs.elems)
            sig == last.out
            T(i) == ev.Inputs.elems[i].Type.stringKind
        IN  /\ Len(sig) = Len(ev.RawName) + 2 + SumLen(ev, n)
                            + (IF n = 0 THEN 0 ELSE n - 1)
            /\ SubSeq(sig, 1, Len(ev.RawName)) = ev.RawName
            /\ sig[Len(ev.RawName) + 1] = "("
            /\ sig[Len(sig)] = ")"
            /\ \A i \in 1..n :
                  /\ SubSeq(sig, SigOffset(ev, i) + 1, SigOffset(ev, i) + Len(T(i))) = T(i)
                  /\ i < n => sig[SigOffset(ev, i) + Len(T(i)) + 1] = ","
            /\ (n = 0 => sig = ev.RawName \o <<"(", ")">>)
            /\ sig = ABIEventSignature(Blind(ev)).out
            /\ last.err = NoErr
            /\ last.post = last.in

\* a signature of two inputs, one of them a tuple and one named and indexed,
\* of an event whose RawName is not its Name
C5_Witness ==
    /\ last.op = "ABIEventSignature"
    /\ last.in[1].RawName # last.in[1].Name
    /\ Len(last.in[1].Inputs.elems) = 2
    /\ last.in[1].Inputs.elems[1].Type.T = "TupleTy"
    /\ last.in[1].Inputs.elems[2].Indexed
    /\ last.in[1].Inputs.elems[2].Name # <<>>
    /\ last.out = <<"E0", "(", "(", "uint256", ",", "address", ")", ",", "uint256", ")">>

\* C6: when the library accepts the type of every element,
\* ABIArgumentsMarshalingToABIArguments returns a nil error and a non-nil list
\* as long as its input, argument i having the Name and the Indexed of input i
\* and the type the library builds from input i's Type, InternalType and
\* Components; a nil or empty input gives an empty list.
C6_ArgumentsConverted ==
    last.op = "ABIArgumentsMarshalingToABIArguments" =>
        LET elems == last.in[1].elems
        IN  (\A i \in 1..Len(elems) : TypeOf(elems[i]).err = NoErr) =>
                /\ last.err = NoErr
                /\ ~last.out.isNil
                /\ Len(last.out.elems) = Len(elems)
                /\ \A i \in 1..Len(elems) :
                      /\ last.out.elems[i].Name = elems[i].Name
                      /\ last.out.elems[i].Indexed = elems[i].Indexed
                      /\ last.out.elems[i].Type = TypeOf(elems[i]).typ
                /\ (Len(elems) = 0 => last.out = MkSlice(<<>>))

\* two elements converted, a tuple with components first, an indexed
\* argument second
C6_Witness ==
    /\ last.op = "ABIArgumentsMarshalingToABIArguments"
    /\ last.err = NoErr
    /\ Len(last.in[1].elems) = 2
    /\ Len(last.in[1].elems[1].Components.elems) = 2
    /\ last.in[1].elems[2].Indexed
    /\ last.in[1].elems[2].Components.isNil
    /\ last.out.elems[1].Type.stringKind
          = <<"(", "uint256", ",", "(", "address", ")", ")">>
    /\ last.out.elems[1].Type.internalType = <<"struct S">>
    /\ last.out.elems[2].Type.stringKind = <<"address">>

\* C7: when the library rejects the type of some element,
\* ABIArgumentsMarshalingToABIArguments returns the nil list and the error of
\* the first such element, having asked the library for the types of the
\* elements up to that one and of no later one; and the list is nil exactly
\* when the error is not.
C7_AllOrNothing ==
    last.op = "ABIArgumentsMarshalingToABIArguments" =>
        LET elems == last.in[1].elems
            k == FirstFail(elems)
        IN  /\ k > 0 =>
                /\ last.out = NilSlice
                /\ last.err = TypeOf(elems[k]).err
                /\ NewTypeKeys(last.calls) = [i \in 1..k |-> elems[i].Type]
            /\ last.out.isNil <=> last.err # NoErr

\* the first of two elements is rejected, the second would have been
\* rejected with another error
C7_Witness ==
    /\ last.op = "ABIArgumentsMarshalingToABIArguments"
    /\ Len(last.in[1].elems) = 2
    /\ FirstFail(last.in[1].elems) = 1
    /\ TypeOf(last.in[1].elems[2]).err \notin {NoErr, TypeOf(last.in[1].elems[1]).err}
    /\ last.out.isNil
    /\ Len(last.calls) = 1

\* C8: the event and the method conversions return a non-nil result exactly
\* when they return a nil error; the method conversion converts Inputs first,
\* leaves Outputs alone when Inputs fail, returns the first error, and calls
\* abi.NewMethod last and only when both conversions succeeded.
C8_EventMethod ==
    /\ last.op = "ABIElementMarshalingToABIEvent" =>
          (last.out.isNil <=> last.err # NoErr)
    /\ last.op = "ABIElementMarshalingToABIMethod" =>
          LET m == last.in[1]
              ci == ABIArgumentsMarshalingToABIArguments(m.Inputs)
              co == ABIArgumentsMarshalingToABIArguments(m.Outputs)
              made == Call("abi.NewMethod", m.Name, NoErr)
          IN  /\ last.out.isNil <=> last.err # NoErr
              /\ ci.err # NoErr => last.err = ci.err /\ last.calls = ci.calls
              /\ (ci.err = NoErr /\ co.err # NoErr) =>
                    last.err = co.err /\ last.calls = ci.calls \o co.calls
              /\ (ci.err = NoErr /\ co.err = NoErr) =>
                    /\ last.calls = ci.calls \o co.calls \o <<made>>
                    /\ ~last.out.isNil
              /\ \A i \in 1..Len(last.calls) :
                    last.calls[i].fn = "abi.NewMethod" =>
                        i = Len(last.calls) /\ last.err = NoErr

\* a method whose Inputs are rejected and whose Outputs would have been
\* rejected with another error
C8_Witness ==
    /\ last.op = "ABIElementMarshalingToABIMethod"
    /\ ABIArgumentsMarshalingToABIArguments(last.in[1].Inputs).err
          = <<"unsupported arg type: ", "foo">>
    /\ ABIArgumentsMarshalingToABIArguments(last.in[1].Outputs).err
          = <<"unsupported arg type: ", "bar">>
    /\ Len(last.in[1].Inputs.elems) = 2
    /\ last.out.isNil
    /\ last.err = <<"unsupported arg type: ", "foo">>

\* C9: ABITypeKnown(t) returns the type ABITypeFor(t) returns, which is the
\* type the library builds from t, an empty internal type and no components;
\* for a name the library rejects that is the zero type, and ABITypeKnown
\* reports no error.
C9_TypeKnownIsTypeFor ==
    /\ last.op = "ABITypeKnown" =>
          LET lib == abi_NewType(last.in[1], <<>>, MkSlice(<<>>))
          IN  /\ last.out = ABITypeFor(last.in[1]).out
              /\ last.out = lib.typ
              /\ last.err = NoErr
              /\ lib.err # NoErr => last.out = ZeroType
    /\ last.op = "ABITypeFor" =>
          LET lib == abi_NewType(last.in[1], <<>>, MkSlice(<<>>))
          IN  /\ last.out = ABITypeKnown(last.in[1]).out
              /\ last.out = lib.typ
              /\ last.err = lib.err

\* ABITypeKnown of a name the library rejects
C9_Witness ==
    /\ last.op = "ABITypeKnown"
    /\ abi_NewType(last.in[1], <<>>, MkSlice(<<>>)).err # NoErr
    /\ last.out = ZeroType

====
